---- MODULE Spec2Model ----
(***************************************************************************)
(* Tock: a terminal clock (src/tock.py).  The module models class          *)
(* TockClock: the render functions draw_*_clock as operators on Python     *)
(* strings, the keyboard handler handle_input, and the display loop run    *)
(* with its terminal acquisition and release.                              *)
(*                                                                         *)
(* A Python str is a sequence of one-character strings, so that            *)
(* concatenation is \o, len is Len and a rendered line can be read back    *)
(* character by character.  A List[str] is a sequence of such sequences.   *)
(***************************************************************************)
EXTENDS Integers, Sequences, FiniteSets, TLC

VARIABLES
    pc,             \* position of run(): the statement about to execute
    current_style,  \* self.current_style
    show_footer,    \* self.show_footer
    running,        \* self.running
    key,            \* the value the last getch() returned
    now,            \* <<h, m, s>> last returned by get_current_time()
    display_lines,  \* the List[str] returned by the last render call
    branch,         \* the branch of get_clock_display / draw function taken
    window,         \* the curses window buffer: what addstr has drawn since clear
    presented,      \* what the last refresh() put on the terminal
    released,       \* the terminal-release calls made so far, in order
    raisedAt,       \* the statements of run() that raised, in order
    tickLog,        \* the steps executed so far in the current loop iteration
    keyLog,         \* the keys getch() returned to handle_input, in order
    origin          \* the value of current_style when keyLog was empty

vars == <<pc, current_style, show_footer, running, key, now, display_lines,
          branch, window, presented, released, raisedAt, tickLog, keyLog, origin>>

-----------------------------------------------------------------------------
(* __init__: the fixed tables                                              *)

styles ==
    <<"digital", "simple", "binary", "words">>

digits ==
       ("0" :> <<
           <<" ","█","█","█","█"," ">>,
           <<"█"," "," "," "," ","█">>,
           <<"█"," "," "," "," ","█">>,
           <<"█"," "," "," "," ","█">>,
           <<"█"," "," "," "," ","█">>,
           <<" ","█","█","█","█"," ">> >>)
    @@ ("1" :> <<
           <<" "," ","█"," "," "," ">>,
           <<" ","█","█"," "," "," ">>,
           <<" "," ","█"," "," "," ">>,
           <<" "," ","█"," "," "," ">>,
           <<" "," ","█"," "," "," ">>,
           <<" ","█","█","█","█"," ">> >>)
    @@ ("2" :> <<
           <<" ","█","█","█","█"," ">>,
           <<"█"," "," "," "," ","█">>,
           <<" "," "," "," "," ","█">>,
           <<" "," "," "," ","█"," ">>,
           <<" "," "," ","█"," "," ">>,
           <<" ","█","█","█","█","█">> >>)
    @@ ("3" :> <<
           <<" ","█","█","█","█"," ">>,
           <<" "," "," "," "," ","█">>,
           <<" "," ","█","█","█"," ">>,
           <<" "," "," "," "," ","█">>,
           <<" "," "," "," "," ","█">>,
           <<" ","█","█","█","█"," ">> >>)
    @@ ("4" :> <<
           <<"█"," "," "," "," "," ">>,
           <<"█"," "," ","█"," "," ">>,
           <<"█","█","█","█","█"," ">>,
           <<" "," "," "," ","█"," ">>,
           <<" "," "," "," ","█"," ">>,
           <<" "," "," "," ","█"," ">> >>)
    @@ ("5" :> <<
           <<" ","█","█","█","█","█">>,
           <<"█"," "," "," "," "," ">>,
           <<"█","█","█","█","█"," ">>,
           <<" "," "," "," "," ","█">>,
           <<" "," "," "," "," ","█">>,
           <<" ","█","█","█","█"," ">> >>)
    @@ ("6" :> <<
           <<" ","█","█","█","█"," ">>,
           <<"█"," "," "," "," "," ">>,
           <<"█","█","█","█","█"," ">>,
           <<"█"," "," "," "," ","█">>,
           <<"█"," "," "," "," ","█">>,
           <<" ","█","█","█","█"," ">> >>)
    @@ ("7" :> <<
           <<" ","█","█","█","█","█">>,
           <<" "," "," "," "," ","█">>,
           <<" "," "," "," ","█"," ">>,
           <<" "," "," ","█"," "," ">>,
           <<" "," ","█"," "," "," ">>,
           <<" "," ","█"," "," "," ">> >>)
    @@ ("8" :> <<
           <<" ","█","█","█","█"," ">>,
           <<"█"," "," "," "," ","█">>,
           <<" ","█","█","█","█"," ">>,
           <<"█"," "," "," "," ","█">>,
           <<"█"," "," "," "," ","█">>,
           <<" ","█","█","█","█"," ">> >>)
    @@ ("9" :> <<
           <<" ","█","█","█","█"," ">>,
           <<"█"," "," "," "," ","█">>,
           <<" ","█","█","█","█","█">>,
           <<" "," "," "," "," ","█">>,
           <<" "," "," "," "," ","█">>,
           <<" ","█","█","█","█"," ">> >>)
    @@ (":" :> <<
           <<" "," "," "," "," "," ">>,
           <<" "," ","█","█"," "," ">>,
           <<" "," ","█","█"," "," ">>,
           <<" "," ","█","█"," "," ">>,
           <<" "," ","█","█"," "," ">>,
           <<" "," "," "," "," "," ">> >>)

words ==
       1 :> <<"O","N","E">>
    @@ 2 :> <<"T","W","O">>
    @@ 3 :> <<"T","H","R","E","E">>
    @@ 4 :> <<"F","O","U","R">>
    @@ 5 :> <<"F","I","V","E">>
    @@ 6 :> <<"S","I","X">>
    @@ 7 :> <<"S","E","V","E","N">>
    @@ 8 :> <<"E","I","G","H","T">>
    @@ 9 :> <<"N","I","N","E">>
    @@ 10 :> <<"T","E","N">>
    @@ 11 :> <<"E","L","E","V","E","N">>
    @@ 12 :> <<"T","W","E","L","V","E">>


-----------------------------------------------------------------------------
(* Python built-ins used by the render functions                           *)

DecDigit ==
    <<"0", "1", "2", "3", "4", "5", "6", "7", "8", "9">>

\* str(n) for an int n: a minus sign for a negative number, then the
\* decimal digits, most significant first.
RECURSIVE PyStr(_)
PyStr(n) ==
    IF n < 0 THEN <<"-">> \o PyStr(-n)
    ELSE IF n < 10 THEN <<DecDigit[n + 1]>>
    ELSE PyStr(n \div 10) \o <<DecDigit[(n % 10) + 1]>>

\* Mutant of PyBin: the binary digits least significant first.
RECURSIVE PyBinLsbFirst(_)
PyBinLsbFirst(n) ==
    IF n < 2 THEN <<DecDigit[n + 1]>>
    ELSE <<DecDigit[(n % 2) + 1]>> \o PyBinLsbFirst(n \div 2)

\* format(n, 'b') for n >= 0: the binary digits, most significant first.
RECURSIVE PyBin(_)
PyBin(n) ==
    IF n < 2 THEN <<DecDigit[n + 1]>>
    ELSE PyBin(n \div 2) \o <<DecDigit[(n % 2) + 1]>>

\* Zero padding on the left up to a minimum width; a longer string is kept.
RECURSIVE ZeroPad(_, _)
ZeroPad(str, width) ==
    IF Len(str) >= width THEN str ELSE ZeroPad(<<"0">> \o str, width)

\* f"{n:02d}" for n >= 0
Format02d(n) ==
    ZeroPad(PyStr(n), 2)

\* format(n, '06b') for n >= 0
Format06b(n) ==
    ZeroPad(PyBin(n), 6)

\* sep.join(parts)
RECURSIVE PyJoin(_, _)
PyJoin(sep, parts) ==
    IF parts = <<>> THEN <<>>
    ELSE IF Len(parts) = 1 THEN parts[1]
    ELSE parts[1] \o sep \o PyJoin(sep, Tail(parts))

-----------------------------------------------------------------------------
(* The render functions                                                    *)

\* Mutant of time_str: f"{h}:{m}:{s}", the fields not zero-padded.
time_strNoPad(h, m, s) ==
    PyStr(h) \o <<":">> \o PyStr(m) \o <<":">> \o PyStr(s)

\* f"{h:02d}:{m:02d}:{s:02d}"
time_str(h, m, s) ==
    Format02d(h) \o <<":">> \o Format02d(m) \o <<":">> \o Format02d(s)

\* self.digits.get(char, self.digits['0'])
char_lines(char) ==
    IF char \in DOMAIN digits THEN digits[char] ELSE digits["0"]

\* The loop of draw_digital_clock over the first k characters of str:
\* lines[i] += line + '  ' for every row i of every character in turn.
RECURSIVE DigitalAccum(_, _)
DigitalAccum(str, k) ==
    IF k = 0 THEN [i \in 1..6 |-> <<>>]
    ELSE LET lines == DigitalAccum(str, k - 1)
             glyph == char_lines(str[k])
         IN  [i \in 1..6 |-> lines[i] \o glyph[i] \o <<" ", " ">>]

draw_digital_clock(h, m, s) ==
    LET str == time_str(h, m, s) IN DigitalAccum(str, Len(str))

draw_simple_clock(h, m, s) ==
    <<time_str(h, m, s)>>

\* Mutant of BinaryLine: the two dot glyphs exchanged.
RECURSIVE BinaryLineSwapped(_, _, _)
BinaryLineSwapped(label, bits, k) ==
    IF k = 0 THEN label
    ELSE BinaryLineSwapped(label, bits, k - 1)
            \o (IF bits[k] = "1" THEN <<"○", " ">> ELSE <<"●", " ">>)

\* The inner loop of draw_binary_clock over the first k bits.
RECURSIVE BinaryLine(_, _, _)
BinaryLine(label, bits, k) ==
    IF k = 0 THEN label
    ELSE BinaryLine(label, bits, k - 1)
            \o (IF bits[k] = "1" THEN <<"●", " ">> ELSE <<"○", " ">>)

\* '  ' + '  '.join(['6','5','4','3','2','1'])
BinaryRuler ==
    <<" ", " ">> \o PyJoin(<<" ", " ">>, << <<"6">>, <<"5">>, <<"4">>, <<"3">>, <<"2">>, <<"1">> >>)

\* The three lines draw_binary_clock appends for one value.
BinaryGroup(value, label) ==
    LET bits == Format06b(value)
    IN  << BinaryLine(label, bits, Len(bits)), BinaryRuler, <<>> >>

draw_binary_clock(h, m, s) ==
    LET hours   == h % 24
        minutes == m
        seconds == s
        lines   == BinaryGroup(hours, <<"H", " ">>)
                     \o BinaryGroup(minutes, <<"M", " ">>)
                     \o BinaryGroup(seconds, <<"S", " ">>)
    IN  SubSeq(lines, 1, Len(lines) - 1)

\* words.get(n, str(n))
number_to_words(n) ==
    IF n \in DOMAIN words THEN words[n] ELSE PyStr(n)

\* Mutant of minutes_to_words: the last branch takes the ones digit of m
\* (m % 10) where the code takes m - 40.
minutes_to_wordsOnesDigit(m) ==
    IF m = 1 THEN <<"O","N","E">>
    ELSE IF m = 15 THEN <<"F","I","F","T","E","E","N">>
    ELSE IF m = 30 THEN <<"T","H","I","R","T","Y">>
    ELSE IF m = 45 THEN <<"F","O","R","T","Y","-","F","I","V","E">>
    ELSE IF m < 30 THEN number_to_words(m)
    ELSE LET ones == number_to_words(m % 10)
         IN  <<"F","O","R","T","Y","-">> \o ones

minutes_to_words(m) ==
    IF m = 1 THEN <<"O","N","E">>
    ELSE IF m = 15 THEN <<"F","I","F","T","E","E","N">>
    ELSE IF m = 30 THEN <<"T","H","I","R","T","Y">>
    ELSE IF m = 45 THEN <<"F","O","R","T","Y","-","F","I","V","E">>
    ELSE IF m < 30 THEN number_to_words(m)
    ELSE LET ones == number_to_words(m - 40)
         IN  <<"F","O","R","T","Y","-">> \o ones

draw_words_clock(h, m, s) ==
    LET hours_word   == number_to_words(IF h % 12 = 0 THEN 12 ELSE h % 12)
        minutes_word == minutes_to_words(m)
    IN  IF m = 0 THEN << hours_word \o <<" ","O","'","C","L","O","C","K">> >>
        ELSE << hours_word \o <<" ">> \o minutes_word >>

\* The branch get_clock_display takes for a style name.
StyleBranch(style) ==
    IF style \in {"digital", "simple", "binary", "words"} THEN style ELSE "fallback"

\* get_clock_display after the time is sampled: dispatch on the style name.
render(style, h, m, s) ==
    IF style = "digital" THEN draw_digital_clock(h, m, s)
    ELSE IF style = "simple" THEN draw_simple_clock(h, m, s)
    ELSE IF style = "binary" THEN draw_binary_clock(h, m, s)
    ELSE IF style = "words" THEN draw_words_clock(h, m, s)
    ELSE draw_simple_clock(h, m, s)

-----------------------------------------------------------------------------
(* Keyboard input: handle_input                                            *)

\* curses.KEY_LEFT, curses.KEY_RIGHT and the ord() of the letters tested
KEY_LEFT ==
    260
KEY_RIGHT ==
    261
ord_h ==
    104
ord_H ==
    72
ord_q ==
    113
ord_Q ==
    81
\* getch() returns ERR when no key arrives within the halfdelay timeout
ERR ==
    -1

\* Keys the if/elif chain tests for
HandledKeys ==
    {KEY_LEFT, KEY_RIGHT, ord_h, ord_H, ord_q, ord_Q}

\* Values of getch() the chain does not test for: ERR, KEY_UP (259), 'x' (120)
OtherKeys ==
    {ERR, 259, 120}

Keys ==
    HandledKeys \cup OtherKeys

\* Mutant of PreviousStyle: the remainder truncates toward zero, as % does
\* in C, so that -1 stays -1.
PreviousStyleTruncated(i) ==
    IF i - 1 < 0 THEN -((1 - i) % Len(styles)) ELSE (i - 1) % Len(styles)

\* Mutant of NextStyle: the index is not reduced modulo the style count.
NextStyleNoWrap(i) ==
    i + 1

\* (self.current_style - 1) % len(self.styles); Python's % takes the sign of
\* the divisor, as does TLA+'s for a positive divisor.
PreviousStyle(i) ==
    (i - 1) % Len(styles)

\* (self.current_style + 1) % len(self.styles)
NextStyle(i) ==
    (i + 1) % Len(styles)

\* Mutant of HandleKey: the third test reads "key == ord('h') or ord('H')",
\* which is true of every key that is not an arrow.
HandleKeyTruthyOr(k) ==
    IF k = KEY_LEFT THEN
        /\ current_style' = PreviousStyle(current_style)
        /\ UNCHANGED <<show_footer, running>>
    ELSE IF k = KEY_RIGHT THEN
        /\ current_style' = NextStyle(current_style)
        /\ UNCHANGED <<show_footer, running>>
    ELSE
        /\ show_footer' = ~show_footer
        /\ UNCHANGED <<current_style, running>>

\* The if/elif chain of handle_input applied to the key k that getch() returned.
HandleKey(k) ==
    IF k = KEY_LEFT THEN
        /\ current_style' = PreviousStyle(current_style)
        /\ UNCHANGED <<show_footer, running>>
    ELSE IF k = KEY_RIGHT THEN
        /\ current_style' = NextStyle(current_style)
        /\ UNCHANGED <<show_footer, running>>
    ELSE IF k = ord_h \/ k = ord_H THEN
        /\ show_footer' = ~show_footer
        /\ UNCHANGED <<current_style, running>>
    ELSE IF k = ord_q \/ k = ord_Q THEN
        /\ running' = FALSE
        /\ UNCHANGED <<current_style, show_footer>>
    ELSE
        UNCHANGED <<current_style, show_footer, running>>

\* self.styles[i] with Python's list indexing: a negative index counts from
\* the end, an index outside -len..len-1 raises IndexError.
StyleAt(i) ==
    IF i \in 0..(Len(styles) - 1) THEN styles[i + 1]
    ELSE IF i \in (-Len(styles))..(-1) THEN styles[i + Len(styles) + 1]
    ELSE "IndexError"

-----------------------------------------------------------------------------
(* The display loop: run                                                   *)

SetupSteps ==
    {"noecho", "cbreak", "curs_set", "nodelay", "keypad"}

LoopSteps ==
    {"while", "clear", "get_clock_display", "draw_centered", "draw_footer",
     "refresh", "halfdelay", "handle_input", "sleep"}

ReleaseSteps ==
    {"nocbreak", "keypad_off", "echo", "endwin"}

\* The order of the statements of one iteration of the while body, with
\* get_clock_display split into its time sample and its render call and
\* handle_input into its getch and its transition.
TickOrder ==
    <<"clear", "get_current_time", "render", "draw_centered", "draw_footer",
      "refresh", "halfdelay", "getch", "transition", "sleep">>

\* The statements of the finally block, in order.
ReleaseOrder ==
    <<"nocbreak", "keypad_off", "echo", "endwin">>

\* Times get_current_time() returns in the display loop.
LoopTimes ==
    {<<0, 0, 0>>, <<13, 15, 7>>, <<5, 54, 59>>}

EmptyWindow ==
    [frame |-> <<>>, footer |-> FALSE]

\* __init__ followed by the call of run()
Init ==
    /\ pc = "initscr"
    /\ current_style = 0
    /\ show_footer = TRUE
    /\ running = TRUE
    /\ key = ERR
    /\ now = <<0, 0, 0>>
    /\ display_lines = <<>>
    /\ branch = "none"
    /\ window = EmptyWindow
    /\ presented = EmptyWindow
    /\ released = <<>>
    /\ raisedAt = <<>>
    /\ tickLog = <<>>
    /\ keyLog = <<>>
    /\ origin = 0

\* self.stdscr is set once curses.initscr() has returned.
Acquired ==
    pc # "initscr" /\ (raisedAt = <<>> \/ raisedAt[1] # "initscr")

\* self.stdscr = curses.initscr()
Initscr ==
    /\ pc = "initscr"
    /\ pc' = "noecho"
    /\ UNCHANGED <<current_style, show_footer, running, key, now, display_lines,
                   branch, window, presented, released, raisedAt, tickLog, keyLog, origin>>

\* curses.noecho(); curses.cbreak(); curses.curs_set(0);
\* self.stdscr.nodelay(True); self.stdscr.keypad(True): one statement a step
SetupStep ==
    /\ pc \in SetupSteps
    /\ pc' = CASE pc = "noecho"   -> "cbreak"
               [] pc = "cbreak"   -> "curs_set"
               [] pc = "curs_set" -> "nodelay"
               [] pc = "nodelay"  -> "keypad"
               [] pc = "keypad"   -> "while"
    /\ UNCHANGED <<current_style, show_footer, running, key, now, display_lines,
                   branch, window, presented, released, raisedAt, tickLog, keyLog, origin>>

\* Mutant of While: "while True", the body is entered whatever running is.
WhileTrue ==
    /\ pc = "while"
    /\ pc' = "clear"
    /\ tickLog' = <<>>
    /\ UNCHANGED <<current_style, show_footer, running, key, now, display_lines,
                   branch, window, presented, released, raisedAt, keyLog, origin>>

\* while self.running: enter the body, or leave the try block for finally
While ==
    /\ pc = "while"
    /\ IF running
         THEN pc' = "clear" /\ tickLog' = <<>>
         ELSE pc' = "nocbreak" /\ UNCHANGED tickLog
    /\ UNCHANGED <<current_style, show_footer, running, key, now, display_lines,
                   branch, window, presented, released, raisedAt, keyLog, origin>>

\* self.stdscr.clear()
Clear ==
    /\ pc = "clear"
    /\ window' = EmptyWindow
    /\ tickLog' = Append(tickLog, "clear")
    /\ pc' = "get_clock_display"
    /\ UNCHANGED <<current_style, show_footer, running, key, now, display_lines,
                   branch, presented, released, raisedAt, keyLog, origin>>

\* get_clock_display with t the triple get_current_time() returns
GetClockDisplayAt(t) ==
    LET style == StyleAt(current_style)
    IN  /\ now' = t
        /\ display_lines' = render(style, t[1], t[2], t[3])
        /\ branch' = StyleBranch(style)

\* display_lines = self.get_clock_display()
GetClockDisplay ==
    /\ pc = "get_clock_display"
    /\ \E t \in LoopTimes : GetClockDisplayAt(t)
    /\ tickLog' = tickLog \o <<"get_current_time", "render">>
    /\ pc' = "draw_centered"
    /\ UNCHANGED <<current_style, show_footer, running, key, window, presented,
                   released, raisedAt, keyLog, origin>>

\* self.draw_centered(self.stdscr, display_lines): addstr of every line
\* (a curses.error of addstr is caught per line; window.frame records the
\* lines handed to addstr, not which of them fitted the terminal)
DrawCentered ==
    /\ pc = "draw_centered"
    /\ window' = [window EXCEPT !.frame = display_lines]
    /\ tickLog' = Append(tickLog, "draw_centered")
    /\ pc' = "draw_footer"
    /\ UNCHANGED <<current_style, show_footer, running, key, now, display_lines,
                   branch, presented, released, raisedAt, keyLog, origin>>

\* self.draw_footer(self.stdscr): returns at once when show_footer is false
DrawFooter ==
    /\ pc = "draw_footer"
    /\ window' = IF ~show_footer THEN window ELSE [window EXCEPT !.footer = TRUE]
    /\ tickLog' = Append(tickLog, "draw_footer")
    /\ pc' = "refresh"
    /\ UNCHANGED <<current_style, show_footer, running, key, now, display_lines,
                   branch, presented, released, raisedAt, keyLog, origin>>

\* self.stdscr.refresh()
Refresh ==
    /\ pc = "refresh"
    /\ presented' = window
    /\ tickLog' = Append(tickLog, "refresh")
    /\ pc' = "halfdelay"
    /\ UNCHANGED <<current_style, show_footer, running, key, now, display_lines,
                   branch, window, released, raisedAt, keyLog, origin>>

\* curses.halfdelay(10)
Halfdelay ==
    /\ pc = "halfdelay"
    /\ tickLog' = Append(tickLog, "halfdelay")
    /\ pc' = "handle_input"
    /\ UNCHANGED <<current_style, show_footer, running, key, now, display_lines,
                   branch, window, presented, released, raisedAt, keyLog, origin>>

\* Mutant of HandleInput: the handler redraws at once after the transition
\* (the frame for the new style and footer is drawn and presented).
HandleInputRedraw ==
    /\ pc = "handle_input"
    /\ \E k \in Keys :
         /\ key' = k
         /\ HandleKey(k)
    /\ window' = [frame |-> render(StyleAt(current_style'), now[1], now[2], now[3]),
                  footer |-> show_footer']
    /\ presented' = window'
    /\ tickLog' = tickLog \o <<"getch", "transition">>
    /\ pc' = "sleep"
    /\ UNCHANGED <<now, display_lines, branch, released, raisedAt, keyLog, origin>>

\* self.handle_input(): one getch(), then the transition for its key
HandleInput ==
    /\ pc = "handle_input"
    /\ \E k \in Keys :
         /\ key' = k
         /\ HandleKey(k)
    /\ tickLog' = tickLog \o <<"getch", "transition">>
    /\ pc' = "sleep"
    /\ UNCHANGED <<now, display_lines, branch, window, presented, released,
                   raisedAt, keyLog, origin>>

\* time.sleep(0.1), then back to the loop condition
Sleep ==
    /\ pc = "sleep"
    /\ tickLog' = Append(tickLog, "sleep")
    /\ pc' = "while"
    /\ UNCHANGED <<current_style, show_footer, running, key, now, display_lines,
                   branch, window, presented, released, raisedAt, keyLog, origin>>

\* finally: curses.nocbreak(); self.stdscr.keypad(False); curses.echo();
\* curses.endwin(): one statement a step; after the last one run returns, or
\* the exception that left the try block propagates.
ReleaseStep ==
    /\ pc \in ReleaseSteps
    /\ released' = Append(released, pc)
    /\ pc' = CASE pc = "nocbreak"   -> "keypad_off"
               [] pc = "keypad_off" -> "echo"
               [] pc = "echo"       -> "endwin"
               [] pc = "endwin"     -> IF raisedAt = <<>> THEN "returned" ELSE "raised"
    /\ UNCHANGED <<current_style, show_footer, running, key, now, display_lines,
                   branch, window, presented, raisedAt, tickLog, keyLog, origin>>

\* An exception (curses.error, KeyboardInterrupt) raised by initscr or by a
\* statement between initscr and try: nothing encloses it, it propagates.
RaiseBeforeTry ==
    /\ pc \in {"initscr"} \cup SetupSteps
    /\ raisedAt' = Append(raisedAt, pc)
    /\ pc' = "raised"
    /\ UNCHANGED <<current_style, show_footer, running, key, now, display_lines,
                   branch, window, presented, released, tickLog, keyLog, origin>>

\* An exception raised by a statement of the try block: control moves to
\* the finally block.
RaiseInTry ==
    /\ pc \in LoopSteps
    /\ raisedAt' = Append(raisedAt, pc)
    /\ pc' = "nocbreak"
    /\ UNCHANGED <<current_style, show_footer, running, key, now, display_lines,
                   branch, window, presented, released, tickLog, keyLog, origin>>

\* An exception raised by a statement of the finally block: the rest of the
\* block is skipped and the exception propagates.
RaiseInFinally ==
    /\ pc \in ReleaseSteps
    /\ raisedAt' = Append(raisedAt, pc)
    /\ pc' = "raised"
    /\ UNCHANGED <<current_style, show_footer, running, key, now, display_lines,
                   branch, window, presented, released, tickLog, keyLog, origin>>

Next ==
    \/ Initscr
    \/ SetupStep
    \/ While
    \/ Clear
    \/ GetClockDisplay
    \/ DrawCentered
    \/ DrawFooter
    \/ Refresh
    \/ Halfdelay
    \/ HandleInput
    \/ Sleep
    \/ ReleaseStep
    \/ RaiseBeforeTry
    \/ RaiseInTry
    \/ RaiseInFinally

Spec ==
    Init /\ [][Next]_vars

-----------------------------------------------------------------------------
(* The render functions over every time of day                             *)

Hours ==
    0..23
Minutes ==
    0..59
Seconds ==
    0..59

InitRender ==
    /\ pc = "call"
    /\ current_style \in 0..(Len(styles) - 1)
    /\ show_footer = TRUE
    /\ running = TRUE
    /\ key = ERR
    /\ now = <<0, 0, 0>>
    /\ display_lines = <<>>
    /\ branch = "none"
    /\ window = EmptyWindow
    /\ presented = EmptyWindow
    /\ released = <<>>
    /\ raisedAt = <<>>
    /\ tickLog = <<>>
    /\ keyLog = <<>>
    /\ origin = 0

\* One call of get_clock_display, the clock showing any time of day.
RenderCall ==
    /\ pc = "call"
    /\ \E h \in Hours, m \in Minutes, s \in Seconds : GetClockDisplayAt(<<h, m, s>>)
    /\ pc' = "rendered"
    /\ UNCHANGED <<current_style, show_footer, running, key, window, presented,
                   released, raisedAt, tickLog, keyLog, origin>>

NextRender ==
    RenderCall

SpecRender ==
    InitRender /\ [][NextRender]_vars

-----------------------------------------------------------------------------
(* The keyboard handler over every sequence of keys                        *)

MaxKeys ==
    4

InitInput ==
    /\ pc = "handle_input"
    /\ current_style \in 0..(Len(styles) - 1)
    /\ origin = current_style
    /\ show_footer \in BOOLEAN
    /\ running = TRUE
    /\ key = ERR
    /\ now = <<0, 0, 0>>
    /\ display_lines = <<>>
    /\ branch = "none"
    /\ window = EmptyWindow
    /\ presented = EmptyWindow
    /\ released = <<>>
    /\ raisedAt = <<>>
    /\ tickLog = <<>>
    /\ keyLog = <<>>

\* One call of handle_input while the loop is running; the key is logged.
InputEvent ==
    /\ pc = "handle_input"
    /\ running
    /\ Len(keyLog) < MaxKeys
    /\ \E k \in Keys :
         /\ key' = k
         /\ HandleKey(k)
         /\ keyLog' = Append(keyLog, k)
    /\ UNCHANGED <<pc, now, display_lines, branch, window, presented, released,
                   raisedAt, tickLog, origin>>

NextInput ==
    InputEvent

SpecInput ==
    InitInput /\ [][NextInput]_vars

-----------------------------------------------------------------------------
(* Properties                                                              *)

RunExited ==
    pc \in {"returned", "raised"}

\* The statements of a loop iteration that clear, render, display or poll.
TickSteps ==
    {"clear", "get_clock_display", "draw_centered", "draw_footer", "refresh",
     "halfdelay", "handle_input"}

\* handle_input returns having read 'q' or 'Q'.
QuitHandled ==
    pc = "handle_input" /\ pc' = "sleep" /\ key' \in {ord_q, ord_Q}

\* C1: handling a Quit key turns running from true to false, and from then
\* on running stays false and run executes no statement that clears,
\* renders, displays or polls input: the window, the presented frame, the
\* rendered lines and the last key read never change again.
C1_QuitStopsLoop ==
    /\ [][QuitHandled => (running /\ ~running')]_vars
    /\ [][~running => /\ ~running'
                      /\ pc' \notin TickSteps
                      /\ UNCHANGED <<window, presented, display_lines, key>>]_vars

\* The loop was left through its condition after a Quit key.
C1_Witness ==
    /\ pc = "nocbreak"
    /\ ~running
    /\ key \in {ord_q, ord_Q}
    /\ raisedAt = <<>>
    /\ tickLog = TickOrder

\* C2: once initscr has returned, whenever run has returned or let an
\* exception propagate (one raised by a statement other than the release
\* statements themselves), the four release calls nocbreak, keypad(False),
\* echo, endwin have all been made, in that order.
C2_ReleaseOnEveryExit ==
    ( /\ RunExited
      /\ Acquired
      /\ \A i \in DOMAIN raisedAt : raisedAt[i] \notin ReleaseSteps )
    => released = ReleaseOrder

\* C3: from every starting index, the keys right, left and the keys left,
\* right bring current_style back to the starting index, and so do as many
\* right keys as there are styles.
C3_StyleRoundTrip ==
    /\ keyLog = <<KEY_RIGHT, KEY_LEFT>> => current_style = origin
    /\ keyLog = <<KEY_LEFT, KEY_RIGHT>> => current_style = origin
    /\ keyLog = [i \in 1..Len(styles) |-> KEY_RIGHT] => current_style = origin

\* Index 3 wrapped to 0 and came back.
C3_Witness ==
    /\ origin = 3
    /\ keyLog = <<KEY_RIGHT, KEY_LEFT>>
    /\ current_style = 3

\* C4: a call of handle_input whose getch returns a key other than the
\* arrows, h, H, q, Q (ERR of a timed-out poll included) leaves
\* current_style, show_footer and running as they were.
C4_OtherKeysIgnored ==
    [][(pc = "handle_input" /\ pc' = "sleep" /\ key' \notin HandledKeys)
         => UNCHANGED <<current_style, show_footer, running>>]_vars

\* An unhandled key was read in a state that earlier keys had changed.
C4_Witness ==
    /\ pc = "sleep"
    /\ key = 120
    /\ current_style = 2
    /\ ~show_footer
    /\ running

\* The English words for 0..19.
EnglishWords ==
       0 :> <<"Z","E","R","O">>
    @@ 1 :> <<"O","N","E">>
    @@ 2 :> <<"T","W","O">>
    @@ 3 :> <<"T","H","R","E","E">>
    @@ 4 :> <<"F","O","U","R">>
    @@ 5 :> <<"F","I","V","E">>
    @@ 6 :> <<"S","I","X">>
    @@ 7 :> <<"S","E","V","E","N">>
    @@ 8 :> <<"E","I","G","H","T">>
    @@ 9 :> <<"N","I","N","E">>
    @@ 10 :> <<"T","E","N">>
    @@ 11 :> <<"E","L","E","V","E","N">>
    @@ 12 :> <<"T","W","E","L","V","E">>
    @@ 13 :> <<"T","H","I","R","T","E","E","N">>
    @@ 14 :> <<"F","O","U","R","T","E","E","N">>
    @@ 15 :> <<"F","I","F","T","E","E","N">>
    @@ 16 :> <<"S","I","X","T","E","E","N">>
    @@ 17 :> <<"S","E","V","E","N","T","E","E","N">>
    @@ 18 :> <<"E","I","G","H","T","E","E","N">>
    @@ 19 :> <<"N","I","N","E","T","E","E","N">>

\* The English word for n in -19..19.
EnglishWord(n) ==
    IF n < 0 THEN <<"M","I","N","U","S"," ">> \o EnglishWords[-n] ELSE EnglishWords[n]

\* The decimal numerals of the values of minute - 40 outside 1..12.
Numerals ==
       (-9) :> <<"-","9">>
    @@ (-8) :> <<"-","8">>
    @@ (-7) :> <<"-","7">>
    @@ (-6) :> <<"-","6">>
    @@ (-5) :> <<"-","5">>
    @@ (-4) :> <<"-","4">>
    @@ (-3) :> <<"-","3">>
    @@ (-2) :> <<"-","2">>
    @@ (-1) :> <<"-","1">>
    @@ (0) :> <<"0">>
    @@ (13) :> <<"1","3">>
    @@ (14) :> <<"1","4">>
    @@ (15) :> <<"1","5">>
    @@ (16) :> <<"1","6">>
    @@ (17) :> <<"1","7">>
    @@ (18) :> <<"1","8">>
    @@ (19) :> <<"1","9">>

\* The word of the hour on the 12-hour dial.
HourWord(h) ==
    words[IF h % 12 = 0 THEN 12 ELSE h % 12]

WordsRendered ==
    pc = "rendered" /\ branch = "words"

FortyMinutes ==
    (31..44) \cup (46..59)

\* C5 as stated: in Words style, for every minute in 31..44 and 46..59 the
\* line is the hour word, a space and "FORTY-" followed by the English word
\* for minute - 40.
C5_FortyEnglishWord ==
    (WordsRendered /\ now[2] \in FortyMinutes)
    => display_lines = << HourWord(now[1]) \o <<" ">> \o <<"F","O","R","T","Y","-">>
                            \o EnglishWord(now[2] - 40) >>

\* C5 as amended: in Words style, for every minute in 31..44 and 46..59 the
\* line is the hour word, a space and "FORTY-" followed by the English word
\* for minute - 40 when that is in 1..12 and by its decimal numeral (with
\* its minus sign) otherwise; h=5, m=54 gives "FIVE FORTY-14".
C5_FortyWordOrNumeral ==
    /\ (WordsRendered /\ now[2] \in FortyMinutes)
       => display_lines = << HourWord(now[1]) \o <<" ">> \o <<"F","O","R","T","Y","-">>
                               \o (IF now[2] - 40 \in 1..12
                                     THEN EnglishWords[now[2] - 40]
                                     ELSE Numerals[now[2] - 40]) >>
    /\ (WordsRendered /\ now[1] = 5 /\ now[2] = 54)
       => display_lines = << <<"F","I","V","E"," ","F","O","R","T","Y","-","1","4">> >>
    /\ (WordsRendered /\ now[1] = 5 /\ now[2] = 43)
       => display_lines = << <<"F","I","V","E"," ","F","O","R","T","Y","-","T","H","R","E","E">> >>

\* Words style rendered 05:54.
C5_Witness ==
    /\ WordsRendered
    /\ now[1] = 5
    /\ now[2] = 54
    /\ display_lines = << <<"F","I","V","E"," ","F","O","R","T","Y","-","1","4">> >>

IsDot(c) ==
    c \in {"●", "○"}

NotSpace(c) ==
    c # " "

\* The dots of a line read as binary digits, most significant first.
RECURSIVE DotsValue(_)
DotsValue(dots) ==
    IF dots = <<>> THEN 0
    ELSE 2 * DotsValue(SubSeq(dots, 1, Len(dots) - 1))
           + (IF dots[Len(dots)] = "●" THEN 1 ELSE 0)

IsValueLine(line) ==
    Len(SelectSeq(line, IsDot)) = 6

IsRulerLine(line) ==
    SelectSeq(line, NotSpace) = <<"6", "5", "4", "3", "2", "1">>

BinaryRendered ==
    pc = "rendered" /\ branch = "binary"

\* C6: for every time of day, Binary style gives 8 lines in the order
\* value, ruler, blank, value, ruler, blank, value, ruler, and the six dots
\* of lines 1, 4 and 7 read most significant bit first are h mod 24, m, s.
C6_BinaryDecodes ==
    BinaryRendered =>
        /\ Len(display_lines) = 8
        /\ \A i \in {1, 4, 7} : IsValueLine(display_lines[i])
        /\ \A i \in {2, 5, 8} : IsRulerLine(display_lines[i])
        /\ \A i \in {3, 6} : display_lines[i] = <<>>
        /\ DotsValue(SelectSeq(display_lines[1], IsDot)) = now[1] % 24
        /\ DotsValue(SelectSeq(display_lines[4], IsDot)) = now[2]
        /\ DotsValue(SelectSeq(display_lines[7], IsDot)) = now[3]

\* Binary style rendered 23:59:42.
C6_Witness ==
    /\ BinaryRendered
    /\ now = <<23, 59, 42>>
    /\ Len(display_lines) = 8

\* The characters of zero-padded HH:MM:SS, from the tens and ones digits.
ClockChars(h, m, s) ==
    << DecDigit[(h \div 10) + 1], DecDigit[(h % 10) + 1], ":",
       DecDigit[(m \div 10) + 1], DecDigit[(m % 10) + 1], ":",
       DecDigit[(s \div 10) + 1], DecDigit[(s % 10) + 1] >>

\* Row i of the glyphs of the characters of HH:MM:SS, in character order.
GlyphRows(i) ==
    LET chars == ClockChars(now[1], now[2], now[3])
    IN  [k \in 1..8 |-> digits[chars[k]][i]]

DigitalRendered ==
    pc = "rendered" /\ branch = "digital"

\* C7 as stated: for every time of day, Digital style gives 6 lines, and
\* line i is row i of the 8 glyphs of HH:MM:SS in character order with two
\* spaces between adjacent glyphs.
C7_DigitalRowsJoined ==
    DigitalRendered =>
        /\ Len(display_lines) = 6
        /\ \A i \in 1..6 : display_lines[i] = PyJoin(<<" ", " ">>, GlyphRows(i))

\* C7 as amended: for every time of day, Digital style gives 6 lines, and
\* line i is row i of the 8 glyphs of HH:MM:SS in character order, every
\* glyph row followed by two spaces, the last one included.
C7_DigitalRowsSpaced ==
    DigitalRendered =>
        /\ Len(display_lines) = 6
        /\ \A i \in 1..6 :
             display_lines[i] = PyJoin(<<" ", " ">>, GlyphRows(i)) \o <<" ", " ">>

\* Digital style rendered 09:05:07; each line is 8 * (6 + 2) characters.
C7_Witness ==
    /\ DigitalRendered
    /\ now = <<9, 5, 7>>
    /\ \A i \in 1..6 : Len(display_lines[i]) = 64

\* Bit k (1 = most significant) of the 6-bit binary form of v, as a dot.
DotOf(v, k) ==
    IF (v \div (2 ^ (6 - k))) % 2 = 1 THEN <<"●">> ELSE <<"○">>

BinaryLabels ==
    << <<"H", " ">>, <<"M", " ">>, <<"S", " ">> >>

BinaryValues ==
    <<now[1] % 24, now[2], now[3]>>

\* C8 as stated: in Binary style value line g is its label followed by the
\* six dots with one space between adjacent dots, and the line after it is
\* "6 5 4 3 2 1".
C8_ValueLineAndRuler ==
    BinaryRendered =>
        \A g \in 1..3 :
            /\ display_lines[3 * g - 2]
                 = BinaryLabels[g] \o PyJoin(<<" ">>, [k \in 1..6 |-> DotOf(BinaryValues[g], k)])
            /\ display_lines[3 * g - 1] = <<"6"," ","5"," ","4"," ","3"," ","2"," ","1">>

\* C8 as amended: in Binary style value line g is its label followed by the
\* six dots, every dot followed by one space (the last one included), and
\* the line after it is "  6  5  4  3  2  1": two spaces before every digit.
C8_ValueLineAndRulerSpaced ==
    BinaryRendered =>
        \A g \in 1..3 :
            /\ display_lines[3 * g - 2]
                 = BinaryLabels[g]
                     \o PyJoin(<<" ">>, [k \in 1..6 |-> DotOf(BinaryValues[g], k)]) \o <<" ">>
            /\ display_lines[3 * g - 1] = <<" "," ","6"," "," ","5"," "," ","4"," "," ","3"," "," ","2"," "," ","1">>

\* Binary style rendered 05:54:59; the value lines are 2 + 6 * 2 characters.
C8_Witness ==
    /\ BinaryRendered
    /\ now = <<5, 54, 59>>
    /\ \A g \in 1..3 : Len(display_lines[3 * g - 2]) = 14

IsPrefix(a, b) ==
    Len(a) <= Len(b) /\ a = SubSeq(b, 1, Len(a))

\* The frame and footer the current state and the sampled time call for.
FrameOfState ==
    [frame  |-> render(StyleAt(current_style), now[1], now[2], now[3]),
     footer |-> show_footer]

\* C9: the steps of a tick run in the order clear, sample time, render,
\* display frame, display footer, refresh, poll input, apply transition,
\* sleep; a tick is complete when the loop condition is tested again, so a
\* tick polls input once; the frame presented by a tick is the one of the
\* style and footer flag the tick started with, and the handler leaves the
\* window and the presented frame as they are, so that a change of style or
\* footer shows first in the frame of the following tick.
C9_TickOrder ==
    /\ [](IsPrefix(tickLog, TickOrder))
    /\ []((pc = "while" /\ tickLog # <<>> /\ raisedAt = <<>>) => tickLog = TickOrder)
    /\ []((pc \in {"halfdelay", "handle_input"}) => presented = FrameOfState)
    /\ [][pc = "handle_input" => UNCHANGED <<window, presented, display_lines>>]_vars

\* A right-arrow key changed the style to simple after the digital frame of
\* this tick was presented; the presented frame is still the digital one.
C9_Witness ==
    /\ pc = "sleep"
    /\ key = KEY_RIGHT
    /\ current_style = 1
    /\ Len(presented.frame) = 6
    /\ presented # FrameOfState

\* C10: current_style is always in 0..3, the style looked up is one of the
\* four names, and get_clock_display never takes its fallback branch.
C10_StyleIndexInRange ==
    /\ current_style \in 0..3
    /\ StyleAt(current_style) \in {"digital", "simple", "binary", "words"}
    /\ branch # "fallback"

\* The index wrapped from 0 to 3 on a left-arrow key and words was rendered.
C10_Witness ==
    /\ current_style = 3
    /\ key = KEY_LEFT
    /\ branch = "words"
    /\ pc = "draw_centered"

====
